---------------------------- MODULE Spec2Model ----------------------------
(***************************************************************************)
(* A model of mitmproxy-ui: the proxy process supervisor                   *)
(* (lib/mitmproxy.js), the rule store, the generated matcher and the       *)
(* recording store (lib/mockRules.js), and the traffic backlog and its     *)
(* subscribers (server.js).                                                *)
(*                                                                         *)
(* Each component has its own specification (SpecSupervisor, SpecRules,    *)
(* SpecMatch, SpecTraffic, SpecRecording): the components share no state   *)
(* except through the traffic ingress handler, which is one action used by *)
(* both the traffic and the recording specification. SpecSupervisorFair    *)
(* adds the fairness of timers and of SIGKILL, SpecRulesSeq is the rule    *)
(* store called by one caller at a time, SpecToRules is a recorded session *)
(* followed by recordingToRules, SpecGenerate is the rule store with one   *)
(* export of the script, SpecStatusFair is the supervisor driven through   *)
(* the proxy handlers of server.js, with subscribers, and SpecStops is one *)
(* recorded session with more than one stopRecording call.                 *)
(***************************************************************************)
EXTENDS Integers, Sequences, FiniteSets, TLC

(***************************************************************************)
(* Bounds of the model.                                                    *)
(***************************************************************************)
\* start() calls issued in one behaviour
MaxStarts == 2
\* stop() calls issued in one behaviour
MaxStops == 1

\* transactions reported since the backlog was last empty (SpecTraffic)
MaxIngest == 600
\* transactions reported in one behaviour of SpecRecording
MaxRecIngest == 3
\* startRecording calls that succeed in one behaviour
MaxRecordings == 1
\* stopRecording calls issued in one behaviour of SpecRecording and SpecToRules
MaxRecStops == 1
\* stopRecording calls issued in one behaviour of SpecStops
MaxStopCalls == 2
\* rule store operations (create, update, remove, toggle) issued in one behaviour
MaxRuleOps == 3
\* rules in the list handed to the matchers (SpecMatch)
MaxMatchRules == 2
\* subscriber sockets
MaxClients == 1
\* live messages written to one subscriber socket while it is open (SpecTraffic)
MaxLive == 2
\* the wall clock runs from 0 to MaxClock
MaxClock == 1

VARIABLES
    \* ---- lib/mitmproxy.js ----
    mitmproxyProcess,   \* the module-level handle: 0 is null, p > 0 is child p
    isRunning,          \* the module-level running flag
    proc,               \* the child processes spawned so far
    startCalls,         \* one record per start() call (its closure + promise)
    stopCalls,          \* one record per stop() call (its promise + timer)
    crashed,            \* an uncaught exception has ended the node process
    \* ---- server.js ----
    trafficHistory,     \* the backlog array, oldest first
    clients,            \* the Set of subscriber sockets
    wsOpen,             \* the sockets whose readyState is OPEN
    ingestLog,          \* history: the transactions reported since the backlog was last
                        \* empty, each with the state of the recording slot it met
    inbox,              \* history: per socket, the messages written to it, in order,
                        \* while it is OPEN
    \* ---- lib/mockRules.js, recording ----
    currentRecording,   \* <<>> is null, <<r>> the active recording's metadata
    recordedRequests,   \* the array the variable refers to (an index of heap)
    heap,               \* the arrays recordedRequests has referred to and that are still referenced
    recStops,           \* one record per stopRecording() call
    recordingFiles,     \* data/recordings/<id>.json, by id: <<>> when absent
    reply,              \* the reply of the last synchronous API call
    \* ---- lib/mockRules.js, rules ----
    rulesFile,          \* data/rules.json: the stored rules, in order
    ruleOps,            \* one record per create/update/remove/toggle call
    toRules,            \* the recordingToRules() call
    artifact,           \* the generatePythonScript() call and the script it returned
    \* ---- the matchers, applied to drawn inputs ----
    match,              \* a rule list, a request, and what each matcher decides
    nextUuid,           \* uuidv4() results handed out so far
    clock               \* new Date()

supervisorVars == <<mitmproxyProcess, isRunning, proc, startCalls, stopCalls, crashed>>

backlogVars == <<trafficHistory, clients, wsOpen, ingestLog>>
trafficVars == <<backlogVars, inbox>>
recordingVars == <<currentRecording, recordedRequests, heap, recStops, recordingFiles, reply>>

ruleVars == <<rulesFile, ruleOps, toRules>>

vars == <<supervisorVars, trafficVars, recordingVars, ruleVars, artifact, match, nextUuid, clock>>

(***************************************************************************)
(* ProcessSupervisor: lib/mitmproxy.js                                     *)
(***************************************************************************)
StartIds == 1..MaxStarts
StopIds == 1..MaxStops
\* every spawning start() call launches one child; child p belongs to call p
ProcIds == StartIds

NoProc == [state |-> "none", killed |-> FALSE, sigkill |-> FALSE, stopListeners |-> {}]
\* ignored is history: the timeout has found started already true
NoStart == [state |-> "none", proc |-> 0, started |-> FALSE, timer |-> FALSE, pid |-> 0,
            ignored |-> FALSE]
NoStop == [state |-> "none", timer |-> FALSE]

SupervisorInit ==
    /\ mitmproxyProcess = 0
    /\ isRunning = FALSE
    /\ proc = [p \in ProcIds |-> NoProc]
    /\ startCalls = [c \in StartIds |-> NoStart]
    /\ stopCalls = [s \in StopIds |-> NoStop]
    /\ crashed = FALSE

\* calls are numbered in the order they are issued
NextStart(c) == startCalls[c].state = "none" /\ \A d \in StartIds : d < c => startCalls[d].state # "none"
NextStop(s) == stopCalls[s].state = "none" /\ \A d \in StopIds : d < s => stopCalls[d].state # "none"

\* a start() promise that has not settled
PendingStart(c) == startCalls[c].state = "pending"

Alive(p) == proc[p].state = "alive"

\* status(): { running: isRunning, pid: mitmproxyProcess ? mitmproxyProcess.pid : null }
Status == [running |-> isRunning, pid |-> IF mitmproxyProcess # 0 THEN mitmproxyProcess ELSE 0]

\* the guard of start(): if (isRunning) return reject('mitmproxy is already running')
StartRejects == isRunning

\* start(): rejected at entry, or spawns a child, stores it in the module-level
\* handle, attaches the listeners of this call and arms the 10 s timer.
Start(c) ==
    /\ ~crashed
    /\ NextStart(c)
    /\ IF StartRejects
       THEN /\ startCalls' = [startCalls EXCEPT ![c].state = "AlreadyRunning"]
            /\ UNCHANGED <<mitmproxyProcess, proc>>
       ELSE /\ proc' = [proc EXCEPT ![c].state = "alive"]
            /\ mitmproxyProcess' = c
            /\ startCalls' = [startCalls EXCEPT ![c] =
                    [state |-> "pending", proc |-> c, started |-> FALSE, timer |-> TRUE, pid |-> 0,
                     ignored |-> FALSE]]
    /\ UNCHANGED <<isRunning, stopCalls, crashed>>

\* start() when spawn fails (mitmdump missing): the handle is assigned, then the
\* 'error' event runs on the next tick, before any other handler, followed by
\* 'close': isRunning = false; mitmproxyProcess = null; reject(err).
\* The child never runs; the 10 s timer stays armed.
StartSpawnFails(c) ==
    /\ ~crashed
    /\ NextStart(c)
    /\ ~StartRejects
    /\ proc' = [proc EXCEPT ![c].state = "closed"]
    /\ mitmproxyProcess' = 0
    /\ isRunning' = FALSE
    /\ startCalls' = [startCalls EXCEPT ![c] =
            [state |-> "SpawnError", proc |-> c, started |-> FALSE, timer |-> TRUE, pid |-> 0,
             ignored |-> FALSE]]
    /\ UNCHANGED <<stopCalls, crashed>>

\* The body shared by the stdout and stderr 'data' listeners of call c when the
\* chunk holds a readiness marker, and by the alive branch of the timeout:
\*   started = true; isRunning = true; resolve({ port, pid: mitmproxyProcess.pid })
\* The argument of resolve reads the module-level handle: when a 'close' of any
\* child has nulled it, the read throws a TypeError inside the listener, which
\* nothing catches. resolve() on a settled promise changes nothing.
MarkStarted(c) ==
    /\ isRunning' = TRUE
    /\ IF mitmproxyProcess = 0
       THEN /\ crashed' = TRUE
            /\ startCalls' = [startCalls EXCEPT ![c].started = TRUE]
       ELSE /\ crashed' = crashed
            /\ startCalls' = [startCalls EXCEPT
                    ![c].started = TRUE,
                    ![c].state = IF @ = "pending" THEN "resolved" ELSE @,
                    ![c].pid = IF startCalls[c].state = "pending" THEN mitmproxyProcess ELSE @]

\* StdoutMarker without the test of started
StdoutMarker_NoGuard(c) ==
    /\ ~crashed
    /\ startCalls[c].proc = c /\ Alive(c)
    /\ MarkStarted(c)
    /\ UNCHANGED <<mitmproxyProcess, proc, stopCalls>>

\* mitmproxyProcess.stdout.on('data'): a chunk holding a readiness marker
StdoutMarker(c) ==
    /\ ~crashed
    /\ startCalls[c].proc = c /\ Alive(c)
    /\ IF ~startCalls[c].started
       THEN MarkStarted(c)
       ELSE UNCHANGED <<isRunning, crashed, startCalls>>
    /\ UNCHANGED <<mitmproxyProcess, proc, stopCalls>>

\* mitmproxyProcess.stderr.on('data'): a chunk holding a readiness marker
\* (the same markers, and 'Loading script')
StderrMarker(c) ==
    /\ ~crashed
    /\ startCalls[c].proc = c /\ Alive(c)
    /\ IF ~startCalls[c].started
       THEN MarkStarted(c)
       ELSE UNCHANGED <<isRunning, crashed, startCalls>>
    /\ UNCHANGED <<mitmproxyProcess, proc, stopCalls>>

\* the branch of the timeout: if (mitmproxyProcess && !mitmproxyProcess.killed)
TimeoutAssumesStarted == mitmproxyProcess # 0 /\ ~proc[mitmproxyProcess].killed

\* setTimeout(..., 10000) of call c fires
StartTimeout(c) ==
    /\ ~crashed
    /\ startCalls[c].timer
    /\ IF startCalls[c].started
       THEN /\ startCalls' = [startCalls EXCEPT ![c].timer = FALSE, ![c].ignored = TRUE]
            /\ UNCHANGED <<isRunning, crashed>>
       ELSE IF TimeoutAssumesStarted
            THEN /\ isRunning' = TRUE
                 /\ crashed' = crashed
                 /\ startCalls' = [startCalls EXCEPT
                        ![c].timer = FALSE,
                        ![c].started = TRUE,
                        ![c].state = IF @ = "pending" THEN "resolved" ELSE @,
                        ![c].pid = IF startCalls[c].state = "pending" THEN mitmproxyProcess ELSE @]
            ELSE /\ startCalls' = [startCalls EXCEPT
                        ![c].timer = FALSE,
                        ![c].state = IF @ = "pending" THEN "StartTimeout" ELSE @]
                 /\ UNCHANGED <<isRunning, crashed>>
    /\ UNCHANGED <<mitmproxyProcess, proc, stopCalls>>

\* ProcClose whose listeners clear the handle but leave the running flag
ProcClose_KeepsRunning(p) ==
    /\ ~crashed
    /\ Alive(p)
    /\ proc' = [proc EXCEPT ![p].state = "closed"]
    /\ mitmproxyProcess' = 0
    /\ stopCalls' = [s \in StopIds |->
            IF s \in proc[p].stopListeners /\ stopCalls[s].state = "pending"
            THEN [stopCalls[s] EXCEPT !.state = "resolved"]
            ELSE stopCalls[s]]
    /\ UNCHANGED <<isRunning, startCalls, crashed>>

\* child p exits (on its own, or on a signal) and its 'close' event runs every
\* 'close' listener attached to it: the one of start() and one per stop() call
\* made while p was the handle. Each sets isRunning = false and
\* mitmproxyProcess = null; the listeners of stop() also resolve their promise.
ProcClose(p) ==
    /\ ~crashed
    /\ Alive(p)
    /\ proc' = [proc EXCEPT ![p].state = "closed"]
    /\ isRunning' = FALSE
    /\ mitmproxyProcess' = 0
    /\ stopCalls' = [s \in StopIds |->
            IF s \in proc[p].stopListeners /\ stopCalls[s].state = "pending"
            THEN [stopCalls[s] EXCEPT !.state = "resolved"]
            ELSE stopCalls[s]]
    /\ UNCHANGED <<startCalls, crashed>>

\* stop(): with no handle, resolves at once; otherwise attaches a 'close'
\* listener to the handle, sends SIGTERM and arms the 5 s timer.
Stop(s) ==
    /\ ~crashed
    /\ NextStop(s)
    /\ IF mitmproxyProcess = 0
       THEN /\ isRunning' = FALSE
            /\ stopCalls' = [stopCalls EXCEPT ![s] = [state |-> "resolved", timer |-> FALSE]]
            /\ UNCHANGED proc
       ELSE /\ proc' = [proc EXCEPT
                    ![mitmproxyProcess].stopListeners = @ \cup {s},
                    ![mitmproxyProcess].killed = TRUE]
            /\ stopCalls' = [stopCalls EXCEPT ![s] = [state |-> "pending", timer |-> TRUE]]
            /\ UNCHANGED isRunning
    /\ UNCHANGED <<mitmproxyProcess, startCalls, crashed>>

\* setTimeout(..., 5000) of stop call s fires:
\*   if (mitmproxyProcess) mitmproxyProcess.kill('SIGKILL')
StopTimer(s) ==
    /\ ~crashed
    /\ stopCalls[s].timer
    /\ stopCalls' = [stopCalls EXCEPT ![s].timer = FALSE]
    /\ IF mitmproxyProcess # 0
       THEN proc' = [proc EXCEPT ![mitmproxyProcess].killed = TRUE,
                                 ![mitmproxyProcess].sigkill = TRUE]
       ELSE UNCHANGED proc
    /\ UNCHANGED <<mitmproxyProcess, isRunning, startCalls, crashed>>

(***************************************************************************)
(* TrafficBus: server.js                                                   *)
(***************************************************************************)
\* const MAX_TRAFFIC_HISTORY = 500
MAX_TRAFFIC_HISTORY == 500

ClientIds == 1..MaxClients

TrafficInit ==
    /\ trafficHistory = <<>>
    /\ clients = {}
    /\ wsOpen = {}
    /\ ingestLog = <<>>
    /\ inbox = [c \in ClientIds |-> <<>>]

\* SliceLast taking the first n elements instead of the last
SliceLast_First(a, n) == IF Len(a) <= n THEN a ELSE SubSeq(a, 1, n)

\* Array.prototype.slice(-n): the last n elements, all of them when there are fewer
SliceLast(a, n) == IF Len(a) <= n THEN a ELSE SubSeq(a, Len(a) - n + 1, Len(a))

\* PushHistory without the eviction
PushHistory_NoShift(h, t) == Append(h, t)

\* PushHistory evicting with pop() instead of shift()
PushHistory_PopNewest(h, t) ==
    LET pushed == Append(h, t)
    IN  IF Len(pushed) > MAX_TRAFFIC_HISTORY THEN SubSeq(pushed, 1, Len(pushed) - 1) ELSE pushed

\* trafficHistory.push(t); if (trafficHistory.length > MAX_TRAFFIC_HISTORY) trafficHistory.shift()
PushHistory(h, t) ==
    LET pushed == Append(h, t)
    IN  IF Len(pushed) > MAX_TRAFFIC_HISTORY THEN Tail(pushed) ELSE pushed

\* getRecordingStatus() of lib/mockRules.js
RecordingStatus ==
    [isRecording |-> currentRecording # <<>>,
     recording |-> currentRecording,
     requestCount |-> Len(heap[recordedRequests])]

\* Broadcast sending the message twice to every open socket
Broadcast_Twice(box, type, data) ==
    [c \in ClientIds |->
        IF c \in clients /\ c \in wsOpen
        THEN box[c] \o <<[type |-> type, data |-> data], [type |-> type, data |-> data]>>
        ELSE box[c]]

\* Broadcast writing the message ahead of what the socket was sent before
Broadcast_Prepend(box, type, data) ==
    [c \in ClientIds |->
        IF c \in clients /\ c \in wsOpen
        THEN <<[type |-> type, data |-> data]>> \o box[c]
        ELSE box[c]]

\* broadcast(type, data): the message is sent to every socket of clients whose
\* readyState is OPEN. The value is what the sockets have been sent, given box.
Broadcast(box, type, data) ==
    [c \in ClientIds |->
        IF c \in clients /\ c \in wsOpen
        THEN Append(box[c], [type |-> type, data |-> data])
        ELSE box[c]]

\* wss.on('connection'): clients.add(ws), then the status message and the
\* history message (trafficHistory.slice(-100)) are written to the socket.
WsConnect(c) ==
    /\ c \notin clients
    /\ clients' = clients \cup {c}
    /\ wsOpen' = wsOpen \cup {c}
    /\ inbox' = [inbox EXCEPT ![c] =
            <<[type |-> "status", data |-> [proxy |-> Status, recording |-> RecordingStatus]],
              [type |-> "history", data |-> SliceLast(trafficHistory, 100)]>>]
    /\ UNCHANGED <<trafficHistory, ingestLog>>

\* the socket starts closing: its readyState is no longer OPEN, nothing more
\* is written to it, and what it was sent is no longer followed
WsClosing(c) ==
    /\ c \in wsOpen
    /\ wsOpen' = wsOpen \ {c}
    /\ inbox' = [inbox EXCEPT ![c] = <<>>]
    /\ UNCHANGED <<trafficHistory, clients, ingestLog>>

\* ws.on('close'): clients.delete(ws)
WsClose(c) ==
    /\ c \in clients /\ c \notin wsOpen
    /\ clients' = clients \ {c}
    /\ UNCHANGED <<trafficHistory, wsOpen, ingestLog, inbox>>

\* DELETE /api/traffic/history: trafficHistory.length = 0; broadcast('historyCleared')
ClearHistory ==
    /\ trafficHistory' = <<>>
    /\ ingestLog' = <<>>
    /\ inbox' = Broadcast(inbox, "historyCleared", <<>>)
    /\ UNCHANGED <<clients, wsOpen>>

(***************************************************************************)
(* RecordingStore: lib/mockRules.js                                        *)
(***************************************************************************)
RecIds == 1..MaxRecordings
RecStopIds == 1..MaxStopCalls
\* the stopRecording() calls of SpecRecording and SpecToRules
FirstStopIds == 1..MaxRecStops
\* one array for the variable and one for each stopRecording() call in flight
ArrIds == 1..(MaxStopCalls + 1)

NoRecStop == [pc |-> "none", rec |-> <<>>, arr |-> 0, returned |-> <<>>]
NoReply == [op |-> "", error |-> ""]

RecordingInit ==
    /\ currentRecording = <<>>
    /\ recordedRequests = 1
    /\ heap = [a \in ArrIds |-> <<>>]
    /\ recStops = [k \in RecStopIds |-> NoRecStop]
    /\ recordingFiles = [r \in RecIds |-> <<>>]
    /\ reply = NoReply

\* a stopRecording() call between its call and its return
RecStopInFlight(k) == recStops[k].pc \in {"ensureDataDir", "written"}

\* an array neither the variable nor a call in flight refers to
FreeArr(a) == a # recordedRequests /\ \A k \in RecStopIds : RecStopInFlight(k) => recStops[k].arr # a
NewArr == CHOOSE a \in ArrIds : FreeArr(a) /\ \A b \in ArrIds : FreeArr(b) => a <= b

\* the heap h once the arrays nothing refers to are collected, where rr is the
\* variable recordedRequests and stops are the stopRecording() calls
Collect(h, rr, stops) ==
    [a \in ArrIds |->
        IF a = rr \/ \E k \in RecStopIds : stops[k].pc \in {"ensureDataDir", "written"} /\ stops[k].arr = a
        THEN h[a] ELSE <<>>]

\* startRecording without its guard: it replaces the active recording
StartRecording_NoGuard(name) ==
    /\ nextUuid < MaxRecordings + 1
    /\ currentRecording' = <<[id |-> nextUuid + 1,
                              name |-> IF name # <<>> THEN name ELSE <<"Recording", clock>>,
                              startedAt |-> clock]>>
    /\ nextUuid' = nextUuid + 1
    /\ recordedRequests' = NewArr
    /\ heap' = [heap EXCEPT ![NewArr] = <<>>]
    /\ reply' = [op |-> "startRecording", error |-> ""]
    /\ inbox' = Broadcast(inbox, "recordingStarted", currentRecording'[1])
    /\ UNCHANGED <<recStops, recordingFiles>>

\* startRecording(name): throws while currentRecording is set; otherwise
\*   currentRecording = { id: uuidv4(), name: name || `Recording ${now}`, startedAt: now }
\*   recordedRequests = []
\* followed by the handler's broadcast('recordingStarted', recording) and reply.
\* A name is <<>> when the request gives none.
StartRecording(name) ==
    IF currentRecording # <<>>
    THEN /\ reply' = [op |-> "startRecording", error |-> "Recording already in progress"]
         /\ UNCHANGED <<currentRecording, recordedRequests, heap, recStops, recordingFiles, nextUuid, inbox>>
    ELSE /\ nextUuid < MaxRecordings
         /\ currentRecording' = <<[id |-> nextUuid + 1,
                                   name |-> IF name # <<>> THEN name ELSE <<"Recording", clock>>,
                                   startedAt |-> clock]>>
         /\ nextUuid' = nextUuid + 1
         /\ recordedRequests' = NewArr
         /\ heap' = [heap EXCEPT ![NewArr] = <<>>]
         /\ reply' = [op |-> "startRecording", error |-> ""]
         /\ inbox' = Broadcast(inbox, "recordingStarted", currentRecording'[1])
         /\ UNCHANGED <<recStops, recordingFiles>>

\* addToRecording without its test of currentRecording
AddToRecording_Always(t) ==
    heap' = [heap EXCEPT ![recordedRequests] = Append(@, [txn |-> t, recordedAt |-> clock])]

\* addToRecording(request):
\*   if (currentRecording) recordedRequests.push({ ...request, recordedAt: now })
AddToRecording(t) ==
    IF currentRecording # <<>>
    THEN heap' = [heap EXCEPT ![recordedRequests] = Append(@, [txn |-> t, recordedAt |-> clock])]
    ELSE heap' = heap

\* POST /api/traffic: push to the backlog and evict, addToRecording, then
\* broadcast('traffic') to every socket of clients that is OPEN.
PostTraffic(t) ==
    /\ trafficHistory' = PushHistory(trafficHistory, t)
    /\ AddToRecording(t)
    /\ ingestLog' = Append(ingestLog,
            [txn |-> t,
             rec |-> IF currentRecording # <<>> THEN currentRecording[1].id ELSE 0,
             stopping |-> \E k \in RecStopIds : RecStopInFlight(k)])
    /\ inbox' = Broadcast(inbox, "traffic", t)
    /\ UNCHANGED <<clients, wsOpen, currentRecording, recordedRequests, recStops,
                   recordingFiles, reply>>

NextRecStop(k) == recStops[k].pc = "none" /\ \A j \in RecStopIds : j < k => recStops[j].pc # "none"

\* stopRecording without its guard: an idle store is finalised like an active one
StopRecordingCall_NoGuard(k) ==
    /\ NextRecStop(k)
    /\ recStops' = [recStops EXCEPT ![k] =
            [pc |-> "ensureDataDir",
             rec |-> <<[id |-> 1, name |-> <<>>, startedAt |-> 0, endedAt |-> clock]>>,
             arr |-> recordedRequests,
             returned |-> <<>>]]
    /\ UNCHANGED <<currentRecording, recordedRequests, heap, recordingFiles, reply>>

\* stopRecording() up to its first await: throws while currentRecording is
\* null; otherwise builds
\*   recording = { ...currentRecording, endedAt: now, requests: recordedRequests }
\* where requests is the array itself, not a copy, and awaits ensureDataDir().
StopRecordingCall(k) ==
    /\ NextRecStop(k)
    /\ IF currentRecording = <<>>
       THEN recStops' = [recStops EXCEPT ![k].pc = "NoActiveRecording"]
       ELSE recStops' = [recStops EXCEPT ![k] =
                [pc |-> "ensureDataDir",
                 rec |-> <<[id |-> currentRecording[1].id,
                            name |-> currentRecording[1].name,
                            startedAt |-> currentRecording[1].startedAt,
                            endedAt |-> clock]>>,
                 arr |-> recordedRequests,
                 returned |-> <<>>]]
    /\ UNCHANGED <<currentRecording, recordedRequests, heap, recordingFiles, reply>>

\* what JSON.stringify(recording) holds when it is evaluated
RecordingJson(k) ==
    [id |-> recStops[k].rec[1].id,
     name |-> recStops[k].rec[1].name,
     startedAt |-> recStops[k].rec[1].startedAt,
     endedAt |-> recStops[k].rec[1].endedAt,
     requests |-> heap[recStops[k].arr]]

\* ensureDataDir() has returned: fs.writeFile(filepath, JSON.stringify(recording))
\* serialises the recording as it is now and writes the file.
StopRecordingWrite(k) ==
    /\ recStops[k].pc = "ensureDataDir"
    /\ recordingFiles' = [recordingFiles EXCEPT ![recStops[k].rec[1].id] = <<RecordingJson(k)>>]
    /\ recStops' = [recStops EXCEPT ![k].pc = "written"]
    /\ UNCHANGED <<currentRecording, recordedRequests, heap, reply>>

\* StopRecordingWriteFails clearing the slot although the write failed
StopRecordingWriteFails_ClearsSlot(k) ==
    /\ recStops[k].pc = "ensureDataDir"
    /\ recStops' = [recStops EXCEPT ![k].pc = "PersistenceError", ![k].arr = 0]
    /\ currentRecording' = <<>>
    /\ heap' = Collect(heap, recordedRequests, recStops')
    /\ UNCHANGED <<recordedRequests, recordingFiles, reply>>

\* fs.writeFile rejects: stopRecording() rejects before it touches the slot
StopRecordingWriteFails(k) ==
    /\ recStops[k].pc = "ensureDataDir"
    /\ recStops' = [recStops EXCEPT ![k].pc = "PersistenceError", ![k].arr = 0]
    /\ heap' = Collect(heap, recordedRequests, recStops')
    /\ UNCHANGED <<currentRecording, recordedRequests, recordingFiles, reply>>

\* fs.writeFile has resolved:
\*   currentRecording = null; recordedRequests = []; return recording
\* The handler serialises the returned recording at once:
\* broadcast('recordingStopped', recording), res.json(recording).
StopRecordingReturn(k) ==
    /\ recStops[k].pc = "written"
    /\ currentRecording' = <<>>
    /\ LET fresh == IF \E j \in RecStopIds : j # k /\ RecStopInFlight(j) /\ recStops[j].arr = recordedRequests
                    THEN NewArr ELSE recordedRequests
       IN  /\ recordedRequests' = fresh
           /\ recStops' = [recStops EXCEPT ![k].pc = "returned", ![k].arr = 0,
                                           ![k].returned = <<RecordingJson(k)>>]
           /\ heap' = Collect([heap EXCEPT ![fresh] = <<>>], fresh, recStops')
    /\ inbox' = Broadcast(inbox, "recordingStopped", RecordingJson(k))
    /\ UNCHANGED <<recordingFiles, reply>>

\* the ids of the files of data/recordings, as a list in the order
\* recordings.sort((a, b) => new Date(b.startedAt) - new Date(a.startedAt))
\* leaves them: latest start first, and readdir order (by name) among equals
RECURSIVE SortedRecordingIds(_)
SortedRecordingIds(ids) ==
    IF ids = {} THEN <<>>
    ELSE LET first == CHOOSE r \in ids : \A q \in ids :
                            \/ recordingFiles[r][1].startedAt > recordingFiles[q][1].startedAt
                            \/ /\ recordingFiles[r][1].startedAt = recordingFiles[q][1].startedAt
                               /\ r <= q
         IN  <<first>> \o SortedRecordingIds(ids \ {first})

\* listRecordings(): one summary per file of data/recordings, sorted
ListRecordings ==
    LET sorted == SortedRecordingIds({r \in RecIds : recordingFiles[r] # <<>>})
    IN  [i \in 1..Len(sorted) |->
            LET recording == recordingFiles[sorted[i]][1]
            IN  [id |-> recording.id,
                 name |-> recording.name,
                 startedAt |-> recording.startedAt,
                 endedAt |-> recording.endedAt,
                 requestCount |-> Len(recording.requests)]]

\* getRecording(id): the parsed file, <<>> when fs.readFile throws
GetRecording(id) == recordingFiles[id]

(***************************************************************************)
(* RuleStore: lib/mockRules.js                                             *)
(***************************************************************************)
RuleOpIds == 1..MaxRuleOps
\* the ids a call may name: those uuidv4() can have handed out
RuleIds == 1..MaxRuleOps

NoRuleOp == [kind |-> "none", pc |-> "none", id |-> 0, data |-> <<>>, local |-> <<>>, result |-> <<>>]

\* recordingToRules() has not been called
NoToRules == [pc |-> "none", id |-> 0, recording |-> <<>>, i |-> 0, local |-> <<>>,
              before |-> <<>>, createdRules |-> <<>>]

\* rules.json does not exist yet: loadRules() returns []
RuleStoreInit ==
    /\ rulesFile = <<>>
    /\ ruleOps = [o \in RuleOpIds |-> NoRuleOp]
    /\ toRules = NoToRules

\* a || b on a string field of ruleData: the empty string and a missing field are falsy
OrStr(d, f, default) == IF f \in DOMAIN d /\ d[f] # "" THEN d[f] ELSE default
\* a || b on a number field of ruleData: 0 and a missing field are falsy
OrNum(d, f, default) == IF f \in DOMAIN d /\ d[f] # 0 THEN d[f] ELSE default
\* a || b on an object field of ruleData: only a missing field is falsy
OrObj(d, f, default) == IF f \in DOMAIN d THEN d[f] ELSE default

DefaultHeaders == <<<<"Content-Type", "application/json">>>>

\* the newRule object of create(ruleData)
NewRule(ruleData, uuid, now) ==
    [id |-> uuid,
     enabled |-> TRUE,
     createdAt |-> now,
     updatedAt |-> now,
     urlPattern |-> OrStr(ruleData, "urlPattern", "*"),
     urlPatternType |-> OrStr(ruleData, "urlPatternType", "wildcard"),
     method |-> OrStr(ruleData, "method", "ANY"),
     statusCode |-> OrNum(ruleData, "statusCode", 200),
     headers |-> OrObj(ruleData, "headers", DefaultHeaders),
     body |-> OrStr(ruleData, "body", "{}"),
     delay |-> OrNum(ruleData, "delay", 0),
     description |-> OrStr(ruleData, "description", "")]

\* { ...rule, ...updates, id, updatedAt: now } of update(id, updates)
MergeRule(rule, updates, id, now) ==
    [f \in DOMAIN rule \cup DOMAIN updates |->
        IF f = "id" THEN id
        ELSE IF f = "updatedAt" THEN now
        ELSE IF f \in DOMAIN updates THEN updates[f]
        ELSE rule[f]]

\* rules.findIndex(rule => rule.id === id): 0 when there is none
FindIndex(rules, id) ==
    IF \E i \in 1..Len(rules) : rules[i].id = id
    THEN CHOOSE i \in 1..Len(rules) :
            rules[i].id = id /\ \A j \in 1..Len(rules) : rules[j].id = id => i <= j
    ELSE 0

\* FilterOut dropping the rule and every rule stored after it
FilterOut_DropTail(rules, id) ==
    IF FindIndex(rules, id) = 0 THEN rules ELSE SubSeq(rules, 1, FindIndex(rules, id) - 1)

\* rules.filter(rule => rule.id !== id)
FilterOut(rules, id) == SelectSeq(rules, LAMBDA r : r.id # id)

\* new Error(`Rule not found: ${id}`)
NotFoundError(id) == [error |-> "Rule not found", id |-> id]

NextRuleOp(o) == ruleOps[o].kind = "none" /\ \A j \in RuleOpIds : j < o => ruleOps[j].kind # "none"

\* create, update, remove or toggle is called: each starts with await loadRules()
RuleCall(o, kind, id, data) ==
    /\ NextRuleOp(o)
    /\ ruleOps' = [ruleOps EXCEPT ![o] =
            [kind |-> kind, pc |-> "load", id |-> id, data |-> data, local |-> <<>>, result |-> <<>>]]
    /\ UNCHANGED <<rulesFile, nextUuid>>

\* loadRules() of create returns: the rule is built and pushed on the array
\* just read, and saveRules(rules) is awaited
CreateLoaded(o) ==
    /\ ruleOps[o].kind = "create" /\ ruleOps[o].pc = "load"
    /\ LET newRule == NewRule(ruleOps[o].data, nextUuid + 1, clock)
       IN  ruleOps' = [ruleOps EXCEPT ![o].pc = "save",
                                      ![o].local = Append(rulesFile, newRule),
                                      ![o].result = <<newRule>>]
    /\ nextUuid' = nextUuid + 1
    /\ UNCHANGED rulesFile

\* loadRules() of update returns (update called directly, or by toggle): the
\* call throws when the id is absent; otherwise the rule at its index is
\* replaced in the array just read, and saveRules(rules) is awaited
UpdateLoaded(o) ==
    /\ \/ ruleOps[o].kind = "update" /\ ruleOps[o].pc = "load"
       \/ ruleOps[o].kind = "toggle" /\ ruleOps[o].pc = "load2"
    /\ LET index == FindIndex(rulesFile, ruleOps[o].id)
       IN  IF index = 0
           THEN ruleOps' = [ruleOps EXCEPT ![o].pc = "NotFound", ![o].result = <<NotFoundError(ruleOps[o].id)>>]
           ELSE LET merged == MergeRule(rulesFile[index], ruleOps[o].data, ruleOps[o].id, clock)
                IN  ruleOps' = [ruleOps EXCEPT ![o].pc = "save",
                                               ![o].local = [rulesFile EXCEPT ![index] = merged],
                                               ![o].result = <<merged>>]
    /\ UNCHANGED <<rulesFile, nextUuid>>

\* RemoveLoaded without the test that something was removed
RemoveLoaded_NoCheck(o) ==
    /\ ruleOps[o].kind = "remove" /\ ruleOps[o].pc = "load"
    /\ ruleOps' = [ruleOps EXCEPT ![o].pc = "save", ![o].local = FilterOut(rulesFile, ruleOps[o].id)]
    /\ UNCHANGED <<rulesFile, nextUuid>>

\* loadRules() of remove returns: the call throws when filtering removed
\* nothing; otherwise saveRules(filtered) is awaited
RemoveLoaded(o) ==
    /\ ruleOps[o].kind = "remove" /\ ruleOps[o].pc = "load"
    /\ LET filtered == FilterOut(rulesFile, ruleOps[o].id)
       IN  IF Len(filtered) = Len(rulesFile)
           THEN ruleOps' = [ruleOps EXCEPT ![o].pc = "NotFound", ![o].result = <<NotFoundError(ruleOps[o].id)>>]
           ELSE ruleOps' = [ruleOps EXCEPT ![o].pc = "save", ![o].local = filtered]
    /\ UNCHANGED <<rulesFile, nextUuid>>

\* loadRules() of toggle returns: the call throws when the id is absent;
\* otherwise it calls update(id, { enabled: !rule.enabled }), which loads again
ToggleLoaded(o) ==
    /\ ruleOps[o].kind = "toggle" /\ ruleOps[o].pc = "load"
    /\ LET index == FindIndex(rulesFile, ruleOps[o].id)
       IN  IF index = 0
           THEN ruleOps' = [ruleOps EXCEPT ![o].pc = "NotFound", ![o].result = <<NotFoundError(ruleOps[o].id)>>]
           ELSE ruleOps' = [ruleOps EXCEPT ![o].pc = "load2",
                                           ![o].data = [enabled |-> ~rulesFile[index].enabled]]
    /\ UNCHANGED <<rulesFile, nextUuid>>

\* saveRules(rules): the array the call holds replaces the file, and the call returns
RuleSaved(o) ==
    /\ ruleOps[o].pc = "save"
    /\ rulesFile' = ruleOps[o].local
    /\ ruleOps' = [ruleOps EXCEPT ![o].pc = "done"]
    /\ UNCHANGED nextUuid

\* the ruleData recordingToRules hands to create() for a captured request
\* (the description is the template's fixed part)
RuleDataOf(request) ==
    LET response == request.response[1]
    IN  [urlPattern |-> request.url,
         urlPatternType |-> "exact",
         method |-> request.method,
         statusCode |-> response.status,
         headers |-> OrObj(response, "headers", DefaultHeaders),
         body |-> OrStr(response, "body", "{}"),
         description |-> "From recording"]

\* the index of the first request from i on that carries a response:
\* Len(requests) + 1 when there is none (the for loop ends)
RECURSIVE NextWithResponse(_, _)
NextWithResponse(requests, i) ==
    IF i > Len(requests) THEN i
    ELSE IF requests[i].txn.response # <<>> THEN i
    ELSE NextWithResponse(requests, i + 1)

\* recordingToRules(recordingId) is called: it awaits getRecording(recordingId)
ToRulesCall(id) ==
    /\ toRules.pc = "none"
    /\ toRules' = [toRules EXCEPT !.pc = "getRecording", !.id = id, !.before = rulesFile]
    /\ UNCHANGED <<rulesFile, ruleOps, nextUuid>>

\* getRecording returns: fs.readFile throws when there is no such file;
\* otherwise the loop starts, and the first request that carries a response
\* calls create(), which awaits loadRules()
ToRulesRead ==
    /\ toRules.pc = "getRecording"
    /\ IF recordingFiles[toRules.id] = <<>>
       THEN toRules' = [toRules EXCEPT !.pc = "ReadError"]
       ELSE LET recording == recordingFiles[toRules.id][1]
                first == NextWithResponse(recording.requests, 1)
            IN  toRules' = [toRules EXCEPT
                    !.recording = <<recording>>,
                    !.i = first,
                    !.pc = IF first > Len(recording.requests) THEN "done" ELSE "load"]
    /\ UNCHANGED <<rulesFile, ruleOps, nextUuid>>

\* loadRules() of the create() of request i returns: the rule is built and
\* pushed on the array just read, and saveRules(rules) is awaited
ToRulesCreateLoaded ==
    /\ toRules.pc = "load"
    /\ LET request == toRules.recording[1].requests[toRules.i]
           newRule == NewRule(RuleDataOf(request.txn), nextUuid + 1, clock)
       IN  toRules' = [toRules EXCEPT !.pc = "save",
                                      !.local = Append(rulesFile, newRule)]
    /\ nextUuid' = nextUuid + 1
    /\ UNCHANGED <<rulesFile, ruleOps>>

\* saveRules(rules) of the create() of request i returns: createdRules.push(rule)
\* and the loop goes on to the next request that carries a response
ToRulesCreateSaved ==
    /\ toRules.pc = "save"
    /\ rulesFile' = toRules.local
    /\ LET requests == toRules.recording[1].requests
           next == NextWithResponse(requests, toRules.i + 1)
       IN  toRules' = [toRules EXCEPT !.createdRules = Append(@, toRules.local[Len(toRules.local)]),
                                      !.i = next,
                                      !.pc = IF next > Len(requests) THEN "done" ELSE "load"]
    /\ UNCHANGED <<ruleOps, nextUuid>>

(***************************************************************************)
(* The generated matcher: the Python text of generatePythonScript,         *)
(* lib/mockRules.js. Strings are sequences of one-character strings.       *)
(***************************************************************************)
RECURSIVE FnMatchFrom(_, _, _, _)
\* fnmatch.fnmatch(url, pattern) from position i of the pattern and j of the
\* url: '*' is any run, '?' any one character, the rest is literal, and the
\* whole url must match (os.path.normcase is the identity on the POSIX host).
\* Patterns holding '[' are outside the inputs drawn.
FnMatchFrom(pattern, i, url, j) ==
    IF i > Len(pattern) THEN j > Len(url)
    ELSE IF pattern[i] = "*"
         THEN \/ FnMatchFrom(pattern, i + 1, url, j)
              \/ j <= Len(url) /\ FnMatchFrom(pattern, i, url, j + 1)
    ELSE IF pattern[i] = "?"
         THEN j <= Len(url) /\ FnMatchFrom(pattern, i + 1, url, j + 1)
    ELSE j <= Len(url) /\ url[j] = pattern[i] /\ FnMatchFrom(pattern, i + 1, url, j + 1)

FnMatch(url, pattern) == FnMatchFrom(pattern, 1, url, 1)

\* re.compile(pattern) raises re.error: '*' with nothing to repeat, or a
\* repeat of a repeat. The patterns drawn use literals, '.' and '*' only.
ReError(pattern) ==
    \E i \in 1..Len(pattern) : pattern[i] = "*" /\ (i = 1 \/ pattern[i - 1] = "*")

RECURSIVE ReMatchFrom(_, _, _, _)
\* the pattern from position i matches a prefix of the url from position j
ReMatchFrom(pattern, i, url, j) ==
    IF i > Len(pattern) THEN TRUE
    ELSE LET atom(c) == pattern[i] = "." \/ pattern[i] = c
         IN  IF i < Len(pattern) /\ pattern[i + 1] = "*"
             THEN \/ ReMatchFrom(pattern, i + 2, url, j)
                  \/ j <= Len(url) /\ atom(url[j]) /\ ReMatchFrom(pattern, i, url, j + 1)
             ELSE j <= Len(url) /\ atom(url[j]) /\ ReMatchFrom(pattern, i + 1, url, j + 1)

\* bool(re.search(pattern, url)): a match starting anywhere in the url
ReSearch(pattern, url) == \E j \in 1..(Len(url) + 1) : ReMatchFrom(pattern, 1, url, j)

\* MatchUrl without the except clause's False: a pattern that does not compile matches
MatchUrl_InvalidMatches(pattern, patternType, url) ==
    IF patternType = "exact" THEN url = pattern
    ELSE IF patternType = "wildcard" THEN FnMatch(url, pattern)
    ELSE IF patternType = "regex" THEN (IF ReError(pattern) THEN TRUE ELSE ReSearch(pattern, url))
    ELSE FALSE

\* def match_url(pattern, pattern_type, url)
MatchUrl(pattern, patternType, url) ==
    IF patternType = "exact" THEN url = pattern
    ELSE IF patternType = "wildcard" THEN FnMatch(url, pattern)
    ELSE IF patternType = "regex" THEN (IF ReError(pattern) THEN FALSE ELSE ReSearch(pattern, url))
    ELSE FALSE

\* str.upper() on the method names drawn
Upper(m) ==
    CASE m = "get" -> "GET"
      [] m = "post" -> "POST"
      [] m = "any" -> "ANY"
      [] OTHER -> m

\* def match_method(rule_method, request_method)
MatchMethod(ruleMethod, requestMethod) ==
    IF ruleMethod = "ANY" THEN TRUE ELSE Upper(ruleMethod) = Upper(requestMethod)

RECURSIVE RequestFrom_NoSkip(_, _, _, _)
\* the loop of MockRulesAddon.request without the test of 'enabled'
RequestFrom_NoSkip(mockRules, i, url, method) ==
    IF i > Len(mockRules) THEN 0
    ELSE IF /\ MatchUrl(mockRules[i].urlPattern, mockRules[i].urlPatternType, url)
            /\ MatchMethod(mockRules[i].method, method)
         THEN mockRules[i].id
    ELSE RequestFrom_NoSkip(mockRules, i + 1, url, method)

RECURSIVE RequestFrom(_, _, _, _)
\* MockRulesAddon.request: for rule in MOCK_RULES, from the i-th on: a rule
\* that is not enabled is skipped; the first one whose match_url and
\* match_method both hold answers the flow and ends the loop. The value is the
\* id of that rule, 0 when the loop ends without one.
RequestFrom(mockRules, i, url, method) ==
    IF i > Len(mockRules) THEN 0
    ELSE IF ~mockRules[i].enabled THEN RequestFrom(mockRules, i + 1, url, method)
    ELSE IF /\ MatchUrl(mockRules[i].urlPattern, mockRules[i].urlPatternType, url)
            /\ MatchMethod(mockRules[i].method, method)
         THEN mockRules[i].id
    ELSE RequestFrom(mockRules, i + 1, url, method)

\* MockRulesAddon.request on a loaded rule list
Request(mockRules, url, method) == RequestFrom(mockRules, 1, url, method)

\* EnabledRules keeping every rule
EnabledRules_All(rules) == rules

\* rules.filter(r => r.enabled) of generatePythonScript
EnabledRules(rules) == SelectSeq(rules, LAMBDA r : r.enabled)

\* JSON.stringify of a boolean
JsonBoolean(b) == IF b THEN "true" ELSE "false"

\* MOCK_RULES = ${JSON.stringify(enabledRules, null, 2)}: the text of the
\* literal. A JSON string reads as the same Python string; a JSON boolean is
\* the bare word true or false.
MockRulesLiteral(rules) ==
    LET enabledRules == EnabledRules(rules)
    IN  [i \in 1..Len(enabledRules) |->
            [id |-> enabledRules[i].id,
             enabled |-> JsonBoolean(enabledRules[i].enabled),
             urlPattern |-> enabledRules[i].urlPattern,
             urlPatternType |-> enabledRules[i].urlPatternType,
             method |-> enabledRules[i].method]]

\* the bare words Python can evaluate in the literal
PythonNames == {"True", "False", "None"}

\* the module-level assignment of MOCK_RULES evaluates: no bare word of the
\* literal is an undefined name (otherwise NameError, and no addon is loaded)
ScriptLoads(literal) == \A i \in 1..Len(literal) : literal[i].enabled \in PythonNames

\* MOCK_RULES once the assignment has evaluated
LoadedRules(literal) ==
    [i \in 1..Len(literal) |-> [literal[i] EXCEPT !.enabled = (literal[i].enabled = "True")]]

\* what the artifact of generatePythonScript, run by mitmdump on its own,
\* decides for a request: the id of the rule that answers it, 0 for none
ArtifactDecision(rules, url, method) ==
    LET literal == MockRulesLiteral(rules)
    IN  IF ScriptLoads(literal) THEN Request(LoadedRules(literal), url, method) ELSE 0

\* generatePythonScript() has not been called
NoArtifact == [pc |-> "none", rules |-> <<>>, script |-> <<>>]

GenerateInit == artifact = NoArtifact

\* generatePythonScript() is called: it awaits loadRules()
GenerateCall ==
    /\ artifact.pc = "none"
    /\ artifact' = [artifact EXCEPT !.pc = "load"]

\* loadRules() of generatePythonScript returns: the enabled rules are filtered
\* from the array just read and the script text is built and returned:
\* its 'Generated at' line and its MOCK_RULES literal
GenerateLoaded ==
    /\ artifact.pc = "load"
    /\ artifact' = [pc |-> "done",
                    rules |-> rulesFile,
                    script |-> <<[generatedAt |-> clock, MOCK_RULES |-> MockRulesLiteral(rulesFile)]>>]

(***************************************************************************)
(* MatchEngine.decide: the in-process matcher of scripts/mitm-addon.py is  *)
(* not among the sources; it is modelled from section 4.2 of the           *)
(* specification.                                                          *)
(***************************************************************************)
RECURSIVE GlobEnds(_, _, _)
\* the prefixes of s (by length) that the first k symbols of glob p match:
\* '*' matches any run of characters, '?' any one character
GlobEnds(p, k, s) ==
    IF k = 0 THEN {0}
    ELSE LET before == GlobEnds(p, k - 1, s)
         IN  IF p[k] = "*" THEN {j \in 0..Len(s) : \E b \in before : b <= j}
             ELSE {b + 1 : b \in {x \in before : x < Len(s) /\ (p[k] = "?" \/ s[x + 1] = p[k])}}

RECURSIVE RegexEnds(_, _, _, _)
\* the positions of s a match of the first k symbols of regex p can end at
\* when it starts at position start (0-based boundaries)
RegexEnds(p, k, s, start) ==
    IF k = 0 THEN {start}
    ELSE IF p[k] = "*"
         THEN LET before == RegexEnds(p, k - 2, s, start)
                  run(b, j) == \A x \in (b + 1)..j : p[k - 1] = "." \/ s[x] = p[k - 1]
              IN  {j \in 0..Len(s) : \E b \in before : b <= j /\ run(b, j)}
    ELSE LET before == RegexEnds(p, k - 1, s, start)
         IN  {b + 1 : b \in {x \in before : x < Len(s) /\ (p[k] = "." \/ s[x + 1] = p[k])}}

\* urlMatch of section 4.2
SpecUrlMatch(rule, url) ==
    CASE rule.urlPatternType = "exact" -> url = rule.urlPattern
      [] rule.urlPatternType = "wildcard" -> Len(url) \in GlobEnds(rule.urlPattern, Len(rule.urlPattern), url)
      [] rule.urlPatternType = "regex" ->
            /\ ~\E i \in 1..Len(rule.urlPattern) :
                    rule.urlPattern[i] = "*" /\ (i = 1 \/ rule.urlPattern[i - 1] = "*")
            /\ \E start \in 0..Len(url) :
                    RegexEnds(rule.urlPattern, Len(rule.urlPattern), url, start) # {}
      [] OTHER -> FALSE

\* methodMatch of section 4.2: ANY, or the same verb whatever the case
SpecMethodMatch(rule, method) ==
    LET fold(v) == IF v \in {"get", "GET"} THEN "get"
                   ELSE IF v \in {"post", "POST"} THEN "post" ELSE v
    IN  rule.method = "ANY" \/ fold(rule.method) = fold(method)

\* decide(request, rules) of section 4.2: the id of the first enabled rule,
\* in stored order, whose predicate matches; 0 for none
Decide(rules, url, method) ==
    LET hits == {i \in 1..Len(rules) :
                    rules[i].enabled /\ SpecUrlMatch(rules[i], url) /\ SpecMethodMatch(rules[i], method)}
    IN  IF hits = {} THEN 0
        ELSE rules[CHOOSE i \in hits : \A j \in hits : i <= j].id

\* the inputs drawn for the matchers
MatchUrls == {<<"a">>, <<"a", "b">>, <<"b", "a">>, <<"a", "a", "b">>}
MatchRequestMethods == {"GET", "POST"}
MatchRuleMethods == {"ANY", "post"}
MatchPatterns ==
    {<<"exact", <<"a", "b">>>>,
     <<"wildcard", <<"*">>>>, <<"wildcard", <<"a", "*">>>>, <<"wildcard", <<"a", "?">>>>,
     <<"regex", <<"b">>>>, <<"regex", <<"a", "*", "b">>>>, <<"regex", <<"*", "a">>>>}

\* what the three matchers decide on the inputs drawn
Decisions(rules, url, method) ==
    [rules |-> rules, url |-> url, method |-> method,
     request |-> Request(rules, url, method),
     artifact |-> ArtifactDecision(rules, url, method),
     decide |-> Decide(EnabledRules(rules), url, method)]

\* no rule is stored and the request seen has an empty url
MatchInit == match = Decisions(<<>>, <<>>, "GET")

\* a request reaches the matchers
MatchRequest(url, method) ==
    /\ <<url, method>> # <<match.url, match.method>>
    /\ match' = Decisions(match.rules, url, method)

\* one more rule is stored, after the others, and the matchers run again
MatchAddRule(enabled, pat, ruleMethod) ==
    /\ Len(match.rules) < MaxMatchRules
    /\ LET rule == [id |-> Len(match.rules) + 1, enabled |-> enabled,
                    urlPattern |-> pat[2], urlPatternType |-> pat[1], method |-> ruleMethod]
       IN  match' = Decisions(Append(match.rules, rule), match.url, match.method)

\* new Date() advances
Tick ==
    /\ clock < MaxClock
    /\ clock' = clock + 1

Init ==
    /\ SupervisorInit
    /\ TrafficInit
    /\ RecordingInit
    /\ RuleStoreInit
    /\ GenerateInit
    /\ MatchInit
    /\ nextUuid = 0
    /\ clock = 0

\* what each component leaves alone
notSupervisor == <<trafficVars, recordingVars, ruleVars, artifact, match, nextUuid, clock>>
notTraffic == <<supervisorVars, recordingVars, ruleVars, artifact, match, nextUuid, clock>>
notRecorder == <<supervisorVars, backlogVars, ruleVars, artifact, match, nextUuid, clock>>
notRecording == <<supervisorVars, trafficVars, ruleVars, artifact, match, nextUuid, clock>>
notRules == <<supervisorVars, trafficVars, recordingVars, toRules, artifact, match, clock>>
notToRules == <<supervisorVars, trafficVars, recordingVars, artifact, match, clock>>
notGenerate == <<supervisorVars, trafficVars, recordingVars, ruleVars, match, nextUuid, clock>>
notMatch == <<supervisorVars, trafficVars, recordingVars, ruleVars, artifact, nextUuid, clock>>
\* what a tick of the clock leaves alone
notClock == <<supervisorVars, trafficVars, recordingVars, ruleVars, artifact, match, nextUuid>>

SupervisorNext ==
    \/ \E c \in StartIds : Start(c) /\ UNCHANGED notSupervisor
    \/ \E c \in StartIds : StartSpawnFails(c) /\ UNCHANGED notSupervisor
    \/ \E c \in StartIds : StdoutMarker(c) /\ UNCHANGED notSupervisor
    \/ \E c \in StartIds : StderrMarker(c) /\ UNCHANGED notSupervisor
    \/ \E c \in StartIds : StartTimeout(c) /\ UNCHANGED notSupervisor
    \/ \E p \in ProcIds : ProcClose(p) /\ UNCHANGED notSupervisor
    \/ \E s \in StopIds : Stop(s) /\ UNCHANGED notSupervisor
    \/ \E s \in StopIds : StopTimer(s) /\ UNCHANGED notSupervisor

SpecSupervisor == Init /\ [][SupervisorNext]_vars

\* what the event loop and the operating system guarantee: an armed timer
\* fires, and a child that was sent SIGKILL exits
SupervisorFairness ==
    /\ \A c \in StartIds : WF_vars(StartTimeout(c) /\ UNCHANGED notSupervisor)
    /\ \A s \in StopIds : WF_vars(StopTimer(s) /\ UNCHANGED notSupervisor)
    /\ \A p \in ProcIds : WF_vars(proc[p].sigkill /\ ProcClose(p) /\ UNCHANGED notSupervisor)

SpecSupervisorFair == SpecSupervisor /\ SupervisorFairness

\* the start() and stop() promises that resolve in this step
ResolvingCalls ==
    Cardinality({c \in StartIds : startCalls[c].state # "resolved" /\ startCalls'[c].state = "resolved"})
    + Cardinality({s \in StopIds : stopCalls[s].state # "resolved" /\ stopCalls'[s].state = "resolved"})

RECURSIVE BroadcastTimes(_, _, _, _)
\* broadcast(type, data) called n times
BroadcastTimes(box, n, type, data) ==
    IF n = 0 THEN box ELSE BroadcastTimes(Broadcast(box, type, data), n - 1, type, data)

\* POST /api/proxy/start and POST /api/proxy/stop: the handler awaits start()
\* or stop(); when the promise resolves its continuation runs before any other
\* event and calls broadcast('status', { proxy: mitmproxy.status() }). A
\* rejected start() broadcasts nothing, and neither does a 'close' or a timer
\* that resolves no call.
ProxyHandlers == inbox' = BroadcastTimes(inbox, ResolvingCalls, "status", [proxy |-> Status'])

\* what the supervisor and the proxy handlers leave alone
notProxy == <<backlogVars, recordingVars, ruleVars, artifact, match, nextUuid, clock>>

\* the supervisor driven through the proxy handlers, with subscribers
StatusNext ==
    \/ \E c \in StartIds : Start(c) /\ ProxyHandlers /\ UNCHANGED notProxy
    \/ \E c \in StartIds : StartSpawnFails(c) /\ ProxyHandlers /\ UNCHANGED notProxy
    \/ \E c \in StartIds : StdoutMarker(c) /\ ProxyHandlers /\ UNCHANGED notProxy
    \/ \E c \in StartIds : StderrMarker(c) /\ ProxyHandlers /\ UNCHANGED notProxy
    \/ \E c \in StartIds : StartTimeout(c) /\ ProxyHandlers /\ UNCHANGED notProxy
    \/ \E p \in ProcIds : ProcClose(p) /\ ProxyHandlers /\ UNCHANGED notProxy
    \/ \E s \in StopIds : Stop(s) /\ ProxyHandlers /\ UNCHANGED notProxy
    \/ \E s \in StopIds : StopTimer(s) /\ ProxyHandlers /\ UNCHANGED notProxy
    \/ \E c \in ClientIds : ~crashed /\ WsConnect(c) /\ UNCHANGED notTraffic
    \/ \E c \in ClientIds : WsClosing(c) /\ UNCHANGED notTraffic
    \/ \E c \in ClientIds : WsClose(c) /\ UNCHANGED notTraffic

\* what the event loop and the operating system guarantee: an armed timer
\* fires, and a child that was sent SIGKILL exits
StatusFairness ==
    /\ \A c \in StartIds : WF_vars(StartTimeout(c) /\ ProxyHandlers /\ UNCHANGED notProxy)
    /\ \A s \in StopIds : WF_vars(StopTimer(s) /\ ProxyHandlers /\ UNCHANGED notProxy)
    /\ \A p \in ProcIds : WF_vars(proc[p].sigkill /\ ProcClose(p) /\ ProxyHandlers /\ UNCHANGED notProxy)

SpecStatusFair == Init /\ [][StatusNext]_vars /\ StatusFairness

\* the transaction the proxy addon reports next in SpecTraffic
TrafficTxn == [seq |-> Len(ingestLog) + 1, url |-> "/a", method |-> "GET", response |-> <<>>]

\* the numbers of transactions reported (since the backlog was last empty)
\* at which a subscriber connects in SpecTraffic
ConnectMoments == {0, 1, 100, 101, 600}

\* every open socket can be sent one more live message
InboxRoom == \A c \in clients \cap wsOpen : Len(inbox[c]) < 2 + MaxLive

TrafficNext ==
    \/ /\ Len(ingestLog) < MaxIngest
       /\ InboxRoom
       /\ PostTraffic(TrafficTxn)
       /\ UNCHANGED <<supervisorVars, ruleVars, artifact, match, nextUuid, clock>>
    \/ InboxRoom /\ ClearHistory /\ UNCHANGED notTraffic
    \/ \E c \in ClientIds :
            Len(ingestLog) \in ConnectMoments /\ WsConnect(c) /\ UNCHANGED notTraffic
    \/ \E c \in ClientIds : WsClosing(c) /\ UNCHANGED notTraffic
    \/ \E c \in ClientIds : WsClose(c) /\ UNCHANGED notTraffic

SpecTraffic == Init /\ [][TrafficNext]_vars

\* the transactions the proxy addon may report next in SpecRecording
RecordingTxns ==
    {[seq |-> Len(ingestLog) + 1, url |-> "/a", method |-> "GET", response |-> r] : r \in {<<>>}}

\* the names POST /api/recordings/start may carry: <<>> is none
RecordingNames == {<<>>, <<"s1">>}

RecordingNext ==
    \/ \E nm \in RecordingNames :
            StartRecording(nm) /\ UNCHANGED <<supervisorVars, backlogVars, ruleVars, artifact, match, clock>>
    \/ /\ Len(ingestLog) < MaxRecIngest
       /\ \E t \in RecordingTxns : PostTraffic(t)
       /\ UNCHANGED <<supervisorVars, ruleVars, artifact, match, nextUuid, clock>>
    \/ \E k \in FirstStopIds : StopRecordingCall(k) /\ UNCHANGED notRecording
    \/ \E k \in FirstStopIds : StopRecordingWrite(k) /\ UNCHANGED notRecording
    \/ \E k \in FirstStopIds : StopRecordingWriteFails(k) /\ UNCHANGED notRecording
    \/ \E k \in FirstStopIds : StopRecordingReturn(k) /\ UNCHANGED notRecorder
    \/ Tick /\ UNCHANGED notClock

SpecRecording == Init /\ [][RecordingNext]_vars

\* one session is recorded while stopRecording is called more than once, the
\* calls overlapping or following each other; as many transactions are
\* reported as there are calls
StopsNext ==
    \/ /\ nextUuid = 0
       /\ StartRecording(<<"s1">>)
       /\ UNCHANGED <<supervisorVars, backlogVars, ruleVars, artifact, match, clock>>
    \/ /\ Len(ingestLog) < MaxStopCalls
       /\ \E t \in RecordingTxns : PostTraffic(t)
       /\ UNCHANGED <<supervisorVars, ruleVars, artifact, match, nextUuid, clock>>
    \/ \E k \in RecStopIds : StopRecordingCall(k) /\ UNCHANGED notRecording
    \/ \E k \in RecStopIds : StopRecordingWrite(k) /\ UNCHANGED notRecording
    \/ \E k \in RecStopIds : StopRecordingWriteFails(k) /\ UNCHANGED notRecording
    \/ \E k \in RecStopIds : StopRecordingReturn(k) /\ UNCHANGED notRecorder

SpecStops == Init /\ [][StopsNext]_vars

\* the request bodies of POST /api/rules
CreateInputs == {<<>>, [urlPattern |-> "/a", urlPatternType |-> "exact", statusCode |-> 404]}
\* the request bodies of PUT /api/rules/:id
UpdateInputs == {[statusCode |-> 500], [enabled |-> FALSE]}

RuleStoreNext ==
    \/ \E o \in RuleOpIds : \E d \in CreateInputs :
            RuleCall(o, "create", 0, d) /\ UNCHANGED notRules
    \/ \E o \in RuleOpIds : \E id \in RuleIds : \E d \in UpdateInputs :
            RuleCall(o, "update", id, d) /\ UNCHANGED notRules
    \/ \E o \in RuleOpIds : \E id \in RuleIds :
            RuleCall(o, "remove", id, <<>>) /\ UNCHANGED notRules
    \/ \E o \in RuleOpIds : \E id \in RuleIds :
            RuleCall(o, "toggle", id, <<>>) /\ UNCHANGED notRules
    \/ \E o \in RuleOpIds : CreateLoaded(o) /\ UNCHANGED notRules
    \/ \E o \in RuleOpIds : UpdateLoaded(o) /\ UNCHANGED notRules
    \/ \E o \in RuleOpIds : RemoveLoaded(o) /\ UNCHANGED notRules
    \/ \E o \in RuleOpIds : ToggleLoaded(o) /\ UNCHANGED notRules
    \/ \E o \in RuleOpIds : RuleSaved(o) /\ UNCHANGED notRules
    \/ Tick /\ UNCHANGED notClock

SpecRules == Init /\ [][RuleStoreNext]_vars

\* no rule store call is between its call and its return
RuleStoreIdle == \A o \in RuleOpIds : ruleOps[o].pc \in {"none", "done", "NotFound"}

\* the ids the calls of SpecRulesSeq name: with one rule or none stored, one
\* or both are absent
SeqRuleIds == {1, 2}
\* the request bodies of PUT /api/rules/:id in SpecRulesSeq: the second
\* supplies id and createdAt
SeqUpdateInputs == {[statusCode |-> 500], [id |-> 9, createdAt |-> 9, enabled |-> FALSE]}

\* the request bodies of POST /api/rules in SpecRulesSeq: the second supplies
\* some fields, enabled among them, and leaves the others out
SeqCreateInputs == {<<>>, [urlPattern |-> "/a", statusCode |-> 404, enabled |-> FALSE]}

\* the rule store used by one caller at a time: each call returns before the
\* next is made
RuleStoreSeqNext ==
    \/ \E o \in RuleOpIds : \E d \in SeqCreateInputs :
            RuleStoreIdle /\ RuleCall(o, "create", 0, d) /\ UNCHANGED notRules
    \/ \E o \in RuleOpIds : \E id \in SeqRuleIds : \E d \in SeqUpdateInputs :
            RuleStoreIdle /\ RuleCall(o, "update", id, d) /\ UNCHANGED notRules
    \/ \E o \in RuleOpIds : \E id \in SeqRuleIds :
            RuleStoreIdle /\ RuleCall(o, "remove", id, <<>>) /\ UNCHANGED notRules
    \/ \E o \in RuleOpIds : \E id \in SeqRuleIds :
            RuleStoreIdle /\ RuleCall(o, "toggle", id, <<>>) /\ UNCHANGED notRules
    \/ \E o \in RuleOpIds : CreateLoaded(o) /\ UNCHANGED notRules
    \/ \E o \in RuleOpIds : UpdateLoaded(o) /\ UNCHANGED notRules
    \/ \E o \in RuleOpIds : RemoveLoaded(o) /\ UNCHANGED notRules
    \/ \E o \in RuleOpIds : ToggleLoaded(o) /\ UNCHANGED notRules
    \/ \E o \in RuleOpIds : RuleSaved(o) /\ UNCHANGED notRules
    \/ Tick /\ UNCHANGED notClock

SpecRulesSeq == Init /\ [][RuleStoreSeqNext]_vars

\* the rule store used by one caller at a time, and one export of the script
\* at any moment
GenerateNext ==
    \/ \E o \in RuleOpIds :
            RuleStoreIdle /\ RuleCall(o, "create", 0, <<>>) /\ UNCHANGED notRules
    \/ \E o \in RuleOpIds : \E id \in SeqRuleIds :
            RuleStoreIdle /\ RuleCall(o, "update", id, [enabled |-> FALSE]) /\ UNCHANGED notRules
    \/ \E o \in RuleOpIds : \E id \in SeqRuleIds :
            RuleStoreIdle /\ RuleCall(o, "remove", id, <<>>) /\ UNCHANGED notRules
    \/ \E o \in RuleOpIds : \E id \in SeqRuleIds :
            RuleStoreIdle /\ RuleCall(o, "toggle", id, <<>>) /\ UNCHANGED notRules
    \/ \E o \in RuleOpIds : CreateLoaded(o) /\ UNCHANGED notRules
    \/ \E o \in RuleOpIds : UpdateLoaded(o) /\ UNCHANGED notRules
    \/ \E o \in RuleOpIds : RemoveLoaded(o) /\ UNCHANGED notRules
    \/ \E o \in RuleOpIds : ToggleLoaded(o) /\ UNCHANGED notRules
    \/ \E o \in RuleOpIds : RuleSaved(o) /\ UNCHANGED notRules
    \/ GenerateCall /\ UNCHANGED notGenerate
    \/ GenerateLoaded /\ UNCHANGED notGenerate
    \/ Tick /\ UNCHANGED notClock

SpecGenerate == Init /\ [][GenerateNext]_vars

\* the responses a reported transaction may carry: none, one with a body and
\* headers, one with an empty body and no headers
ToRulesResponses ==
    {<<>>,
     <<[status |-> 201, body |-> "ok", headers |-> <<<<"X-A", "1">>>>]>>,
     <<[status |-> 204, body |-> ""]>>}

\* the transactions the proxy addon may report next in SpecToRules
ToRulesTxns ==
    {[seq |-> Len(ingestLog) + 1, url |-> "/a", method |-> "GET", response |-> r] : r \in ToRulesResponses}

\* a session is recorded and stopped, and recordingToRules is called on it
ToRulesNext ==
    \/ StartRecording(<<"s1">>) /\ UNCHANGED <<supervisorVars, backlogVars, ruleVars, artifact, match, clock>>
    \/ /\ Len(ingestLog) < MaxRecIngest
       /\ \E t \in ToRulesTxns : PostTraffic(t)
       /\ UNCHANGED <<supervisorVars, ruleVars, artifact, match, nextUuid, clock>>
    \/ \E k \in FirstStopIds : StopRecordingCall(k) /\ UNCHANGED notRecording
    \/ \E k \in FirstStopIds : StopRecordingWrite(k) /\ UNCHANGED notRecording
    \/ \E k \in FirstStopIds : StopRecordingReturn(k) /\ UNCHANGED notRecorder
    \/ \E id \in RecIds : ToRulesCall(id) /\ UNCHANGED notToRules
    \/ ToRulesRead /\ UNCHANGED notToRules
    \/ ToRulesCreateLoaded /\ UNCHANGED notToRules
    \/ ToRulesCreateSaved /\ UNCHANGED notToRules

SpecToRules == Init /\ [][ToRulesNext]_vars

MatchNext ==
    \/ \E e \in BOOLEAN : \E pat \in MatchPatterns : \E rm \in MatchRuleMethods :
            MatchAddRule(e, pat, rm) /\ UNCHANGED notMatch
    \/ \E u \in MatchUrls : \E m \in MatchRequestMethods :
            MatchRequest(u, m) /\ UNCHANGED notMatch

SpecMatch == Init /\ [][MatchNext]_vars

(***************************************************************************)
(* The claims.                                                             *)
(***************************************************************************)

\* C1: a start call issued while an earlier start call is still pending is
\* rejected with AlreadyRunning and launches no second process.
C1_SecondStartRejected ==
    [][\A c \in StartIds :
        (/\ startCalls[c].state = "none"
         /\ startCalls'[c].state # "none"
         /\ \E d \in StartIds : PendingStart(d))
        => (startCalls'[c].state = "AlreadyRunning" /\ proc' = proc)]_vars

\* C2: in every reachable state at most one process launched by the
\* supervisor is alive.
C2_AtMostOneProcessAlive == Cardinality({p \in ProcIds : Alive(p)}) <= 1

\* the ids of the rules stored
StoredIds == {rulesFile[i].id : i \in 1..Len(rulesFile)}

\* C3: RuleStore mutations are serialized: when mutating operations overlap,
\* the stored collection after they complete reflects the effect of each; no
\* completed mutation is lost. A completed create's rule is stored unless a
\* completed remove named it, and a completed remove's rule is not stored.
C3_NoLostMutation ==
    \A o \in RuleOpIds : ruleOps[o].pc = "done" =>
        /\ ruleOps[o].kind = "create" =>
                \/ ruleOps[o].result[1].id \in StoredIds
                \/ \E q \in RuleOpIds : /\ ruleOps[q].kind = "remove"
                                        /\ ruleOps[q].pc \in {"save", "done"}
                                        /\ ruleOps[q].id = ruleOps[o].result[1].id
        /\ ruleOps[o].kind = "remove" => ruleOps[o].id \notin StoredIds

\* C4: the matcher returns the first rule in stored order that is enabled
\* and whose URL and method predicates both match, and none if there is no
\* such rule; a disabled rule that would match never shadows a later one.
C4_FirstEnabledMatchWins ==
    LET hit(i) == /\ match.rules[i].enabled
                  /\ MatchUrl(match.rules[i].urlPattern, match.rules[i].urlPatternType, match.url)
                  /\ MatchMethod(match.rules[i].method, match.method)
    IN  /\ match.request = 0 <=> ~\E i \in 1..Len(match.rules) : hit(i)
        /\ \A i \in 1..Len(match.rules) :
                (hit(i) /\ \A j \in 1..(i - 1) : ~hit(j)) => match.request = match.rules[i].id

\* a disabled rule that matches precedes the enabled rule that is returned
C4_Witness ==
    /\ Len(match.rules) = 2
    /\ ~match.rules[1].enabled
    /\ MatchUrl(match.rules[1].urlPattern, match.rules[1].urlPatternType, match.url)
    /\ MatchMethod(match.rules[1].method, match.method)
    /\ match.request = 2

\* C5: for every snapshot of enabled rules and every request, the matcher in
\* the artifact of generatePythonScript, executed standalone, selects the same
\* rule (or none) as decide applied to the same snapshot.
C5_ArtifactAgreesWithDecide == match.artifact = match.decide

\* C6: in every reachable state the traffic backlog holds at most 500
\* transactions.
C6_BacklogAtMost500 == Len(trafficHistory) <= 500

\* the backlog has been full, has evicted, and a subscriber is connected
C6_Witness == Len(trafficHistory) = 500 /\ Len(ingestLog) > 500 /\ clients # {}

\* C7: after n transactions ingested since the backlog was last empty, the
\* backlog is the most recent min(n, 500) of them, oldest first.
C7_MostRecentKept ==
    LET n == Len(ingestLog)
        m == IF n <= 500 THEN n ELSE 500
    IN  /\ Len(trafficHistory) = m
        /\ \A i \in 1..m : trafficHistory[i] = ingestLog[n - m + i].txn

\* 600 ingested: the backlog starts at the 101st and ends at the 600th
C7_Witness ==
    /\ Len(ingestLog) = 600
    /\ trafficHistory[1].seq = 101
    /\ trafficHistory[500].seq = 600

\* C8: startRecording called while a recording is active fails with
\* RecordingAlreadyActive and leaves the active recording's id, name,
\* startedAt and captured sequence unchanged.
C8_StartWhileActiveFails ==
    [][\A nm \in RecordingNames :
        (currentRecording # <<>> /\ StartRecording(nm))
        => (/\ reply'.error = "Recording already in progress"
            /\ currentRecording' = currentRecording
            /\ recordedRequests' = recordedRequests
            /\ heap'[recordedRequests] = heap[recordedRequests])]_vars

\* a start was refused while a recording holding a transaction was active
C8_Witness ==
    /\ reply = [op |-> "startRecording", error |-> "Recording already in progress"]
    /\ currentRecording # <<>>
    /\ Len(heap[recordedRequests]) > 0

\* C9: stopRecording called while the store is Idle fails with
\* NoActiveRecording, persists nothing and leaves the store Idle.
C9_StopWhileIdleFails ==
    [][\A k \in RecStopIds :
        /\ (currentRecording = <<>> /\ StopRecordingCall(k))
            => (/\ recStops'[k].pc = "NoActiveRecording"
                /\ recordingFiles' = recordingFiles
                /\ currentRecording' = <<>>)
        /\ recStops[k].pc = "NoActiveRecording"
            => (recStops'[k] = recStops[k] /\ ~StopRecordingWrite(k))]_vars

\* a stop was refused on an idle store
C9_Witness ==
    /\ \E k \in RecStopIds : recStops[k].pc = "NoActiveRecording"
    /\ currentRecording = <<>>

\* the transactions of the log that met recording r, in ingress order
LoggedFor(r) ==
    LET sel == SelectSeq(ingestLog, LAMBDA e : e.rec = r)
    IN  [i \in 1..Len(sel) |-> sel[i].txn]

\* the transactions of a captured sequence
TxnsOf(reqs) == [i \in 1..Len(reqs) |-> reqs[i].txn]

\* no transaction was reported while a stopRecording() of recording r was in flight
StoppedQuietly(r) == \A i \in 1..Len(ingestLog) : ~(ingestLog[i].rec = r /\ ingestLog[i].stopping)

\* C10: startRecording, k ingress reports, stopRecording persists a Recording
\* whose requests are exactly those k transactions in ingress order, each with
\* a recordedAt stamp, with a non-null endedAt; a transaction ingested while
\* Idle appears in no recording.
C10_StartIngestStop ==
    /\ \A r \in RecIds : recordingFiles[r] # <<>> =>
            LET f == recordingFiles[r][1]
            IN  /\ f.id = r
                /\ f.endedAt \in 0..MaxClock
                /\ \A i \in 1..Len(f.requests) : f.requests[i].recordedAt \in 0..MaxClock
                /\ StoppedQuietly(r) => TxnsOf(f.requests) = LoggedFor(r)
    /\ \A i \in 1..Len(ingestLog) : ingestLog[i].rec = 0 =>
            /\ \A r \in RecIds : recordingFiles[r] # <<>> =>
                    \A j \in 1..Len(recordingFiles[r][1].requests) :
                        recordingFiles[r][1].requests[j].txn # ingestLog[i].txn
            /\ \A a \in ArrIds : \A j \in 1..Len(heap[a]) : heap[a][j].txn # ingestLog[i].txn

\* a recording of two transactions is persisted, one more was ingested while Idle
C10_Witness ==
    \E r \in RecIds :
        /\ recordingFiles[r] # <<>>
        /\ Len(recordingFiles[r][1].requests) = 2
        /\ StoppedQuietly(r)
        /\ currentRecording = <<>>
        /\ \E i \in 1..Len(ingestLog) : ingestLog[i].rec = 0

\* the captured requests that carry a response, in capture order
WithResponse(requests) == SelectSeq(requests, LAMBDA q : q.txn.response # <<>>)

\* C11: recordingToRules(id) on a persisted recording creates exactly one rule
\* per captured transaction that carries a response and none for the others;
\* each created rule has urlPatternType exact, the transaction's url as
\* urlPattern and the recorded response's statusCode and body; the rules are
\* appended to the end of the rule order in capture order and returned.
C11_OneExactRulePerResponse ==
    toRules.pc = "done" =>
        LET captured == WithResponse(toRules.recording[1].requests)
            created == toRules.createdRules
        IN  /\ Len(created) = Len(captured)
            /\ \A i \in 1..Len(created) :
                    /\ created[i].urlPatternType = "exact"
                    /\ created[i].urlPattern = captured[i].txn.url
                    /\ created[i].statusCode = captured[i].txn.response[1].status
                    /\ created[i].body = captured[i].txn.response[1].body
            /\ rulesFile = toRules.before \o created

\* C12: update(id, partial) on an existing rule leaves that rule's id and
\* createdAt unchanged for every partial, including one that itself supplies
\* id or createdAt, and changes only updatedAt and the fields supplied; all
\* other rules are unchanged.
C12_UpdatePreservesIdCreatedAt ==
    [][\A o \in RuleOpIds :
        (ruleOps[o].kind = "update" /\ RuleSaved(o)) =>
            \E index \in 1..Len(rulesFile) :
                /\ rulesFile[index].id = ruleOps[o].id
                /\ Len(rulesFile') = Len(rulesFile)
                /\ \A j \in 1..Len(rulesFile) : j # index => rulesFile'[j] = rulesFile[j]
                /\ rulesFile'[index].id = rulesFile[index].id
                /\ rulesFile'[index].createdAt = rulesFile[index].createdAt
                /\ \A f \in DOMAIN rulesFile[index] \ {"id", "createdAt", "updatedAt"} :
                        rulesFile'[index][f] = IF f \in DOMAIN ruleOps[o].data
                                               THEN ruleOps[o].data[f] ELSE rulesFile[index][f]]_vars

\* C13: remove(id) on an existing rule yields a stored collection that omits
\* exactly the rule with that id and keeps every other rule, in the same
\* relative order and with unchanged contents.
C13_RemoveOmitsExactlyOne ==
    [][\A o \in RuleOpIds :
        (ruleOps[o].kind = "remove" /\ RuleSaved(o)) =>
            \E index \in 1..Len(rulesFile) :
                /\ rulesFile[index].id = ruleOps[o].id
                /\ rulesFile' = SubSeq(rulesFile, 1, index - 1)
                                    \o SubSeq(rulesFile, index + 1, Len(rulesFile))]_vars

\* the first of two stored rules was removed and the second is what is stored
C13_Witness ==
    \E o \in RuleOpIds :
        /\ ruleOps[o].kind = "remove" /\ ruleOps[o].pc = "done" /\ ruleOps[o].id = 1
        /\ Len(rulesFile) = 1 /\ rulesFile[1].id = 2
        /\ \A q \in RuleOpIds : q # o => ruleOps[q].kind = "create"

\* C14: update, remove and toggle called with an id that is not in the store
\* each fail with a rule-not-found error naming the id and leave the stored
\* collection unchanged: no write of a modified collection occurs.
C14_AbsentIdNotFound ==
    [][\A o \in RuleOpIds :
        /\ (/\ ruleOps[o].kind \in {"update", "remove", "toggle"}
            /\ ruleOps[o].pc = "load"
            /\ ruleOps[o].id \notin StoredIds
            /\ ruleOps'[o] # ruleOps[o])
            => (/\ ruleOps'[o].pc = "NotFound"
                /\ ruleOps'[o].result = <<[error |-> "Rule not found", id |-> ruleOps[o].id]>>
                /\ rulesFile' = rulesFile)
        /\ ruleOps[o].pc = "NotFound" => (ruleOps'[o] = ruleOps[o] /\ ~RuleSaved(o))
        /\ (ruleOps[o].kind = "none" /\ ruleOps'[o].kind # "none") => rulesFile' = rulesFile]_vars

\* toggle and one of update and remove have failed on an absent id while a rule is stored
C14_Witness ==
    /\ rulesFile # <<>>
    /\ \E o \in RuleOpIds : ruleOps[o].kind = "toggle" /\ ruleOps[o].pc = "NotFound"
    /\ \E o \in RuleOpIds : ruleOps[o].kind \in {"update", "remove"} /\ ruleOps[o].pc = "NotFound"

\* C15: every stop() call eventually resolves, and when it resolves the
\* supervisor is Stopped (not running, handle cleared), whether the process
\* exits on the graceful termination request or only after the forced kill;
\* this assumes only that a force-killed process eventually exits.
C15_StopEventuallyResolves ==
    /\ \A s \in StopIds : (stopCalls[s].state = "pending") ~> (stopCalls[s].state = "resolved")
    /\ [][\A s \in StopIds :
            (stopCalls[s].state # "resolved" /\ stopCalls'[s].state = "resolved")
                => (~isRunning' /\ mitmproxyProcess' = 0)]_vars

\* C16: when the tracked process exits without stop having been called, from
\* Starting or from Running, the supervisor becomes Stopped with the handle
\* cleared (status reports not running, pid null), and a following start call
\* is not rejected with AlreadyRunning.
C16_UnexpectedExitStops ==
    [][/\ \A p \in ProcIds :
            (/\ ProcClose(p)
             /\ mitmproxyProcess = p
             /\ ~proc[p].killed /\ proc[p].stopListeners = {})
            => (Status' = [running |-> FALSE, pid |-> 0] /\ ~StartRejects')
       /\ \A c \in StartIds :
            StartSpawnFails(c) => (Status' = [running |-> FALSE, pid |-> 0] /\ ~StartRejects')
       /\ \A c \in StartIds :
            (Start(c) /\ ~isRunning) => startCalls'[c].state # "AlreadyRunning"]_vars

\* the first child was Running and exited with no stop() called, and the start
\* call that followed launched the second child
C16_Witness ==
    /\ startCalls[1].state = "resolved" /\ proc[1].state = "closed"
    /\ \A s \in StopIds : stopCalls[s].state = "none"
    /\ startCalls[2].state = "pending" /\ mitmproxyProcess = 2

\* C17: for a start call whose process emits no readiness marker before the
\* start timeout, the call resolves as Running if the process that call
\* launched is still alive when the timeout fires, and fails with StartTimeout
\* if that process has already exited, regardless of other start and stop
\* calls made in between.
C17_TimeoutFollowsOwnProcess ==
    [][\A c \in StartIds :
        (PendingStart(c) /\ ~startCalls[c].started /\ StartTimeout(c))
        => startCalls'[c].state = IF Alive(startCalls[c].proc) THEN "resolved" ELSE "StartTimeout"]_vars

\* C18: in every reachable state, whenever status() reports that the proxy is
\* not running, the pid it reports is null.
C18_NotRunningPidNull == ~Status.running => Status.pid = 0

\* C19: each subscriber receives traffic events in ingress order: of two
\* transactions both delivered live to the same subscriber, the one ingested
\* first is delivered first, and no transaction is delivered live to a
\* subscriber more than once. A socket that stays open is sent at most one
\* more message per step, after those it was sent before; a traffic message
\* carries the transaction ingested in that step; so the transactions sent
\* since the backlog was last cleared carry increasing ingress numbers.
C19_LiveInIngressOrder ==
    /\ [][\A c \in ClientIds :
            (c \in wsOpen /\ c \in wsOpen' /\ inbox'[c] # inbox[c]) =>
                /\ Len(inbox'[c]) = Len(inbox[c]) + 1
                /\ SubSeq(inbox'[c], 1, Len(inbox[c])) = inbox[c]
                /\ inbox'[c][Len(inbox'[c])].type = "traffic" =>
                        /\ Len(ingestLog') = Len(ingestLog) + 1
                        /\ inbox'[c][Len(inbox'[c])].data = ingestLog'[Len(ingestLog')].txn]_vars
    /\ [](\A c \in ClientIds : \A i, j \in 1..Len(inbox[c]) :
            (/\ i < j
             /\ inbox[c][i].type = "traffic" /\ inbox[c][j].type = "traffic"
             /\ \A k \in i..j : inbox[c][k].type # "historyCleared")
            => inbox[c][i].data.seq < inbox[c][j].data.seq)

\* a subscriber that connected after 100 transactions was sent the 101st and
\* then the 102nd
C19_Witness ==
    \E c \in ClientIds :
        /\ Len(inbox[c]) = 4
        /\ inbox[c][3].type = "traffic" /\ inbox[c][3].data.seq = 101
        /\ inbox[c][4].type = "traffic" /\ inbox[c][4].data.seq = 102

\* C20: on connect, the first message a subscriber receives is the status
\* message (supervisor status plus recording status), the second is the
\* history message holding the most recent min(100, backlog length) backlog
\* transactions in ingress order, and no live event is delivered to that
\* subscriber before these two.
C20_ConnectStatusThenHistory ==
    /\ [][\A c \in ClientIds :
            (c \notin clients /\ c \in clients') =>
                LET n == Len(trafficHistory)
                    m == IF n < 100 THEN n ELSE 100
                IN  inbox'[c] =
                        <<[type |-> "status",
                           data |-> [proxy |-> [running |-> isRunning,
                                                pid |-> mitmproxyProcess],
                                     recording |-> [isRecording |-> currentRecording # <<>>,
                                                    recording |-> currentRecording,
                                                    requestCount |-> Len(heap[recordedRequests])]]],
                          [type |-> "history",
                           data |-> [i \in 1..m |-> trafficHistory[n - m + i]]]>>]_vars
    /\ [](\A c \in clients \cap wsOpen :
            /\ Len(inbox[c]) >= 2
            /\ inbox[c][1].type = "status"
            /\ inbox[c][2].type = "history"
            /\ \A i \in 3..Len(inbox[c]) : inbox[c][i].type \notin {"status", "history"})

\* a subscriber connected to a backlog of 101 transactions: it was sent the
\* status, then the history holding the 2nd to the 101st, then a live one
C20_Witness ==
    \E c \in clients \cap wsOpen :
        /\ Len(inbox[c]) >= 3
        /\ Len(inbox[c][2].data) = 100
        /\ inbox[c][2].data[1].seq = 2 /\ inbox[c][2].data[100].seq = 101
        /\ inbox[c][3].type = "traffic"

\* C21: the rule list embedded in a generated artifact is exactly the
\* subsequence of rules that were enabled in the RuleStore at generation time,
\* in stored order; create, update, remove or toggle performed after
\* generation do not change an already-emitted artifact, whose decisions are
\* a function of its text alone.
C21_ArtifactIsEnabledSnapshot ==
    /\ [][GenerateLoaded =>
            LET enabled == SelectSeq(rulesFile, LAMBDA r : r.enabled)
                embedded == artifact'.script[1].MOCK_RULES
            IN  /\ Len(embedded) = Len(enabled)
                /\ \A i \in 1..Len(enabled) :
                        /\ embedded[i].id = enabled[i].id
                        /\ embedded[i].urlPattern = enabled[i].urlPattern
                        /\ embedded[i].urlPatternType = enabled[i].urlPatternType
                        /\ embedded[i].method = enabled[i].method]_vars
    /\ [][artifact.pc = "done" => artifact' = artifact]_vars

\* the script was generated while the only rule stored was disabled, so it
\* embeds no rule, and a rule created afterwards is stored but not embedded
C21_Witness ==
    /\ artifact.pc = "done"
    /\ Len(artifact.rules) = 1 /\ ~artifact.rules[1].enabled
    /\ artifact.script[1].MOCK_RULES = <<>>
    /\ Len(rulesFile) = 2 /\ rulesFile[2].enabled

\* the rule is of type regex and its pattern does not compile
InvalidRegex(rule) ==
    /\ rule.urlPatternType = "regex"
    /\ \E i \in 1..Len(rule.urlPattern) :
            rule.urlPattern[i] = "*" /\ (i = 1 \/ rule.urlPattern[i - 1] = "*")

\* C22: a regex-type rule whose pattern is not a valid regular expression
\* matches no request and raises no error: the matcher treats it as a
\* non-match and continues evaluating the later rules in order. The rule
\* never answers, and the answer is the one the list gives without it.
C22_InvalidRegexNeverMatches ==
    /\ \A i \in 1..Len(match.rules) :
            InvalidRegex(match.rules[i]) => match.request # match.rules[i].id
    /\ match.request =
            Request(SelectSeq(match.rules, LAMBDA r : ~InvalidRegex(r)), match.url, match.method)

\* an enabled rule whose regex does not compile precedes the rule that answers
C22_Witness ==
    /\ Len(match.rules) = 2
    /\ match.rules[1].enabled /\ InvalidRegex(match.rules[1])
    /\ match.rules[1].method = "ANY"
    /\ match.request = 2

\* C23: the Recording returned by a successful stopRecording is identical to
\* the Recording that was persisted (same requests sequence and endedAt), for
\* every interleaving of ingress reports with the stop operation's
\* asynchronous persistence steps.
C23_ReturnedIsPersisted ==
    \A k \in RecStopIds : recStops[k].pc = "returned" =>
        recordingFiles[recStops[k].returned[1].id] = recStops[k].returned

\* C24: in every reachable state, a Recording that is active (getStatus
\* reports isRecording with that recording) has no endedAt and has no
\* persisted copy, so it is neither listed by listRecordings nor retrievable
\* by getRecording; a recording becomes listable or retrievable only once it
\* is no longer active.
C24_ActiveNotPersisted ==
    RecordingStatus.isRecording =>
        LET active == RecordingStatus.recording[1]
        IN  /\ "endedAt" \notin DOMAIN active
            /\ GetRecording(active.id) = <<>>
            /\ \A i \in 1..Len(ListRecordings) : ListRecordings[i].id # active.id

C26_ForceKillOwnProcessOnly ==
    [][\A s \in StopIds : StopTimer(s) =>
            \A p \in ProcIds :
                (proc'[p].sigkill /\ ~proc[p].sigkill) => (s \in proc[p].stopListeners /\ Alive(p))]_vars

\* C27: a transaction that has entered the traffic backlog leaves it only by
\* eviction as the oldest entry when an ingress pushes the backlog past its
\* capacity; no other operation of the system removes a transaction from the
\* backlog.
C27_LeavesOnlyByEviction ==
    [][\A i \in 1..Len(trafficHistory) :
        (\A j \in 1..Len(trafficHistory') : trafficHistory'[j] # trafficHistory[i])
            => (/\ i = 1
                /\ Len(trafficHistory) = MAX_TRAFFIC_HISTORY
                /\ Len(ingestLog') = Len(ingestLog) + 1
                /\ trafficHistory' = Append(Tail(trafficHistory), ingestLog'[Len(ingestLog')].txn))]_vars

\* the supervisor status of the last status message the socket was sent
LastStatus(c) ==
    LET last == CHOOSE i \in 1..Len(inbox[c]) :
                    /\ inbox[c][i].type = "status"
                    /\ \A j \in (i + 1)..Len(inbox[c]) : inbox[c][j].type # "status"
    IN  inbox[c][last].data.proxy

\* C28: every change of supervisor status (start resolving to Running, stop
\* resolving to Stopped, and an unexpected process exit) is followed by a
\* status event delivered to every connected subscriber, so that the last
\* status event a subscriber received eventually agrees with what status()
\* returns, for as long as the subscriber stays connected and the server runs.
C28_StatusEventuallyAgrees ==
    \A c \in ClientIds :
        (c \in wsOpen) ~> (c \notin wsOpen \/ crashed \/ LastStatus(c) = Status)

\* C29: toggle(id) on an existing rule stores the negation of the enabled
\* value the rule had immediately before the toggle took effect, so two
\* completed toggles of the same rule restore its original enabled value,
\* including when the toggles (or a toggle and an update of enabled) overlap
\* in time.
C29_ToggleNegatesStored ==
    [][\A o \in RuleOpIds :
        (ruleOps[o].kind = "toggle" /\ RuleSaved(o)) =>
            \A i \in 1..Len(rulesFile) : rulesFile[i].id = ruleOps[o].id =>
                \E j \in 1..Len(rulesFile') :
                    /\ rulesFile'[j].id = ruleOps[o].id
                    /\ rulesFile'[j].enabled = ~rulesFile[i].enabled]_vars

\* the defaults the specification gives for the fields of a rule
C30_Defaults ==
    [urlPattern |-> "*", urlPatternType |-> "wildcard", method |-> "ANY", statusCode |-> 200,
     headers |-> <<<<"Content-Type", "application/json">>>>, body |-> "{}", delay |-> 0,
     enabled |-> TRUE]

\* C30: create(partial) returns and appends at the end of the stored order a
\* rule with a fresh id in which every field supplied by partial (urlPattern,
\* urlPatternType, method, statusCode, headers, body, delay, enabled,
\* description) has the supplied value and every field not supplied has its
\* default; existing rules are unchanged.
C30_CreateFillsDefaults ==
    [][\A o \in RuleOpIds :
        (ruleOps[o].kind = "create" /\ RuleSaved(o)) =>
            LET partial == ruleOps[o].data
                rule == ruleOps[o].result[1]
            IN  /\ rulesFile' = Append(rulesFile, rule)
                /\ rule.id \notin StoredIds
                /\ \A f \in DOMAIN C30_Defaults :
                        rule[f] = IF f \in DOMAIN partial THEN partial[f] ELSE C30_Defaults[f]
                /\ "description" \in DOMAIN partial => rule.description = partial.description]_vars

\* C31: in every reachable state, whenever status() reports running = true
\* it also reports a non-null pid: the running flag is never set while the
\* process handle is cleared, under any interleaving of start calls,
\* readiness markers, timeouts, stops and process exits.
C31_RunningHasPid == Status.running => Status.pid # 0

\* C32: each recording is finalized at most once: of any stopRecording calls
\* issued for the same active recording, including calls that overlap while
\* persistence is in progress, exactly one succeeds and every other fails
\* with NoActiveRecording.
C32_FinalizedAtMostOnce ==
    \A j, k \in RecStopIds :
        (/\ recStops[j].pc = "returned" /\ recStops[k].pc = "returned"
         /\ recStops[j].returned[1].id = recStops[k].returned[1].id)
        => j = k

\* C33: if persisting the recording fails during stopRecording, the call
\* fails and the RecordingStore state is unchanged: the same recording is
\* still active with its full captured sequence, ingress keeps appending to
\* it, and a later stopRecording can still persist it. The failing step
\* changes neither the slot, the captured sequence nor the files; while the
\* slot is set an ingress report is appended and a stopRecording call passes
\* the guard with the recording of the slot.
C33_FailedPersistKeepsRecording ==
    [][/\ \A k \in RecStopIds : StopRecordingWriteFails(k) =>
            /\ recStops'[k].pc = "PersistenceError"
            /\ RecordingStatus' = RecordingStatus
            /\ heap'[recordedRequests'] = heap[recordedRequests]
            /\ recordingFiles' = recordingFiles
       /\ \A t \in RecordingTxns : (currentRecording # <<>> /\ PostTraffic(t)) =>
            /\ Len(heap'[recordedRequests']) = Len(heap[recordedRequests]) + 1
            /\ heap'[recordedRequests'][Len(heap'[recordedRequests'])].txn = t
            /\ currentRecording' = currentRecording
       /\ \A k \in RecStopIds : (currentRecording # <<>> /\ StopRecordingCall(k)) =>
            /\ recStops'[k].pc = "ensureDataDir"
            /\ recStops'[k].rec[1].id = currentRecording[1].id
            /\ recStops'[k].arr = recordedRequests]_vars

\* the first stopRecording failed to persist a recording of one transaction,
\* one more was reported, and the second stopRecording persisted both
C33_Witness ==
    /\ recStops[1].pc = "PersistenceError"
    /\ recStops[2].pc = "returned"
    /\ recStops[2].returned[1].id = recStops[1].rec[1].id
    /\ Len(recStops[2].returned[1].requests) = 2
    /\ recordingFiles[recStops[1].rec[1].id] = recStops[2].returned
    /\ Len(ingestLog) = 2 /\ ~ingestLog[1].stopping /\ ~ingestLog[2].stopping
    /\ currentRecording = <<>>

\* the ingress numbers of the traffic messages among the messages from the
\* i-th on, in the order they were sent
RECURSIVE LiveSeqs(_, _)
LiveSeqs(box, i) ==
    IF i > Len(box) THEN <<>>
    ELSE IF box[i].type = "traffic" THEN <<box[i].data.seq>> \o LiveSeqs(box, i + 1)
    ELSE LiveSeqs(box, i + 1)

\* C34: for every subscriber that stays connected and open, the history
\* snapshot sent on connect together with the live traffic events forms a
\* gap-free, duplicate-free view: every transaction ingested after the
\* subscriber connected is delivered live exactly once, and no transaction
\* ingested before the connect is delivered live (it appears only in the
\* snapshot, if among the last 100). Every ingress step sends its
\* transaction once to every open subscriber; and until the backlog is
\* cleared the live transactions of a subscriber are those numbered from the
\* one after the snapshot's last up to the latest ingested, each once, in order.
C34_SnapshotThenLiveGapFree ==
    /\ [][Len(ingestLog') = Len(ingestLog) + 1 =>
            \A c \in clients \cap wsOpen :
                inbox'[c] = Append(inbox[c],
                                   [type |-> "traffic", data |-> ingestLog'[Len(ingestLog')].txn])]_vars
    /\ [](\A c \in clients \cap wsOpen :
            (\A i \in 1..Len(inbox[c]) : inbox[c][i].type # "historyCleared") =>
                LET snapshot == inbox[c][2].data
                    k == IF snapshot = <<>> THEN 0 ELSE snapshot[Len(snapshot)].seq
                    live == LiveSeqs(inbox[c], 3)
                IN  /\ k + Len(live) = Len(ingestLog)
                    /\ \A i \in 1..Len(live) : live[i] = k + i)

\* a subscriber connected after the first transaction: its snapshot holds the
\* first, and it was sent the second and the third live, all that were ingested
C34_Witness ==
    \E c \in clients \cap wsOpen :
        /\ Len(inbox[c][2].data) = 1 /\ inbox[c][2].data[1].seq = 1
        /\ LiveSeqs(inbox[c], 3) = <<2, 3>>
        /\ Len(ingestLog) = 3

=============================================================================
